---- MODULE Spec2Model ----
(***************************************************************************)
(* State-machine model of the RigWorkZ whitelist API (src/server.js).      *)
(*                                                                         *)
(* The Whitelist collection is a sequence of documents in insertion order. *)
(* Every request handler runs in a request slot; each `await` of a         *)
(* handler is one step of that slot: the step is the storage operation     *)
(* being executed by the store together with the handler code that runs    *)
(* up to the next `await` (or up to the response).  Steps of different     *)
(* slots interleave freely, as Node interleaves handlers at their awaits.  *)
(* Strings are sequences of one-character strings.                         *)
(***************************************************************************)
EXTENDS Integers, Sequences, FiniteSets, TLC

(* ---------------------------- bounds ----------------------------------- *)
NumSlots == 2          \* requests that can be in flight at once
MaxTime == 1           \* the clock runs over 0..MaxTime
DayTicks == 1          \* clock ticks per calendar day
MaxDocs == 3           \* documents in a collection that is paged through
MaxLimit == 3          \* largest page size of a paging client

(* ------------------------ program constants ---------------------------- *)
HexLen == 40           \* {40} of the address pattern
WeekDays == 7          \* weekAgo.getDate() - 7
DefaultPage == 1       \* parseInt(req.query.page) || 1
DefaultLimit == 50     \* parseInt(req.query.limit) || 50

VARIABLES
    store,       \* the Whitelist collection: Seq of [address, registeredAt]
    now,         \* the server's clock (Date.now / new Date())
    req,         \* req[p]: the handler running in slot p and its locals
    resp,        \* the response sent by the latest step (NoResp if none)
    lifecycle,   \* "running" | "closing" (connection.close() begun) | "exited"
    lastWrite,   \* history: per address, the last committed write
    reported,    \* history: per address, the registeredAt responses have shown
    walk         \* history: the pages a client paging through the list has got

vars == <<store, now, req, resp, lifecycle, lastWrite, reported, walk>>

Slots == 1..NumSlots
None == -1
Null == [address |-> <<>>, registeredAt |-> None]   \* JavaScript null for a document
Idle == [pc |-> "idle"]
NoResp == [op |-> "none", status |-> 0]

(* ------------------------------ strings -------------------------------- *)
RECURSIVE Rep(_, _)
Rep(c, n) == IF n <= 0 THEN <<>> ELSE <<c>> \o Rep(c, n - 1)

Digits == {"0", "1", "2", "3", "4", "5", "6", "7", "8", "9"}
UpperHex == <<"A", "B", "C", "D", "E", "F">>
LowerHex == <<"a", "b", "c", "d", "e", "f">>
Range(f) == { f[i] : i \in DOMAIN f }
\* every character the inputs are written in
Chars ==
    Digits \cup Range(UpperHex) \cup Range(LowerHex) \cup {"x", "X", "g", "G", " ", "\n"}

\* String.prototype.toLowerCase, character by character
LowerChar ==
    [c \in Chars |->
        CASE c \in Range(UpperHex) -> LowerHex[CHOOSE i \in DOMAIN UpperHex : UpperHex[i] = c]
          [] c = "X" -> "x"
          [] c = "G" -> "g"
          [] OTHER   -> c]

toLowerCase(s) == [i \in 1..Len(s) |-> LowerChar[s[i]]]

HexChars == Digits \cup Range(LowerHex) \cup Range(UpperHex)   \* [a-fA-F0-9]

\* mutant: the pattern without its closing anchor, /^0x[a-fA-F0-9]{40}/
isValidUnanchored(address) ==
    /\ Len(address) >= 2 + HexLen
    /\ address[1] = "0"
    /\ address[2] = "x"
    /\ \A i \in 3..(2 + HexLen) : address[i] \in HexChars

\* mutant: the pattern with any 40 characters after the prefix, /^0x.{40}$/
isValidAnyDigits(address) ==
    /\ Len(address) = 2 + HexLen
    /\ address[1] = "0"
    /\ address[2] = "x"

\* /^0x[a-fA-F0-9]{40}$/.test(address): no m flag, so $ is the end of input
isValidEthereumAddress(address) ==
    /\ Len(address) = 2 + HexLen
    /\ address[1] = "0"
    /\ address[2] = "x"
    /\ \A i \in 3..Len(address) : address[i] \in HexChars

(* ------------------------------- inputs -------------------------------- *)
Addr(c) == <<"0", "x">> \o Rep(c, HexLen)

ValidStrings ==
    { Addr("a"), Addr("A"), <<"0", "x", "A">> \o Rep("a", HexLen - 1), Addr("9") }

InvalidStrings ==
    { <<>>,                                        \* empty
      <<"0", "x">> \o Rep("a", HexLen - 1),        \* one digit short
      <<"0", "x">> \o Rep("a", HexLen + 1),        \* one digit long
      <<"0", "X">> \o Rep("a", HexLen),            \* upper-case prefix
      <<"0", "x", "g">> \o Rep("a", HexLen - 1),   \* not a hex digit
      Addr("a") \o <<"\n">>,                       \* trailing newline
      Addr("a") \o <<" ">>,                        \* trailing blank
      <<" ">> \o Addr("a"),                        \* leading blank
      Rep("a", HexLen + 2) }                       \* no 0x prefix

Strings == ValidStrings \cup InvalidStrings

\* the spellings that concurrent requests are drawn from
RaceStrings == { Addr("a"), Addr("A"), Addr("9") }

\* JSON values of req.body.address
Str(s) == [type |-> "string", val |-> s]
NonStrings ==
    { [type |-> "undefined"], [type |-> "number", val |-> 0],
      [type |-> "number", val |-> 7], [type |-> "object"] }
BodyValues == { Str(s) : s \in Strings } \cup NonStrings
RaceBodies == { Str(s) : s \in RaceStrings }

\* JavaScript truthiness of a body value
Truthy(v) ==
    CASE v.type = "undefined" -> FALSE
      [] v.type = "number"    -> v.val # 0
      [] v.type = "string"    -> Len(v.val) > 0
      [] OTHER                -> TRUE

\* the normalized addresses the store can come to hold
NormAddrs == { toLowerCase(s) : s \in ValidStrings } \cup { Addr("b") }

(* ------------------------------ the store ------------------------------ *)
\* String.prototype.trim
RECURSIVE TrimLeft(_)
TrimLeft(s) ==
    IF Len(s) > 0 /\ Head(s) \in {" ", "\n"} THEN TrimLeft(Tail(s)) ELSE s
RECURSIVE TrimRight(_)
TrimRight(s) ==
    IF Len(s) > 0 /\ s[Len(s)] \in {" ", "\n"}
    THEN TrimRight(SubSeq(s, 1, Len(s) - 1)) ELSE s
trim(s) == TrimRight(TrimLeft(s))

\* whitelistSchema.address setters: lowercase: true, trim: true
SchemaAddress(a) == toLowerCase(trim(a))

\* a query filter { address: a } is cast through the same setters (in
\* register and check a has passed the validator and been lower-cased, so the
\* cast changes nothing there)
CastFilter(a) == SchemaAddress(a)

\* mutant: registeredAt is not taken from the clock
DocEpoch(a, t) == [address |-> SchemaAddress(a), registeredAt |-> 0]

\* new Whitelist({ address }) with registeredAt defaulting to Date.now
Doc(a, t) == [address |-> SchemaAddress(a), registeredAt |-> t]

Matching(a) == { i \in 1..Len(store) : store[i].address = a }

\* Whitelist.findOne({ address }): the first matching document, or null
FindOne(a) ==
    IF Matching(a) = {} THEN Null
    ELSE store[CHOOSE i \in Matching(a) : \A j \in Matching(a) : i <= j]

\* mutant: the address index is not unique
NoUniqueIndex(doc) == TRUE

\* the unique index on address (unique: true) rejects a second document
UniqueIndexAllows(doc) == Matching(doc.address) = {}

RemoveAt(s, i) == SubSeq(s, 1, i - 1) \o SubSeq(s, i + 1, Len(s))

\* Whitelist.countDocuments({ registeredAt: { $gte: t } }) and countDocuments()
CountFrom(t) == Cardinality({ i \in 1..Len(store) : store[i].registeredAt >= t })
CountDocuments == Len(store)

\* the orders .sort({ registeredAt: -1 }) can return the collection in: the
\* order of documents with equal registeredAt is not fixed by the query
SortedOrders ==
    { f \in [1..Len(store) -> 1..Len(store)] :
        /\ \A i, j \in 1..Len(store) : i # j => f[i] # f[j]
        /\ \A i, j \in 1..Len(store) :
              i < j => store[f[i]].registeredAt >= store[f[j]].registeredAt }

Min(a, b) == IF a < b THEN a ELSE b
Abs(n) == IF n < 0 THEN -n ELSE n

\* .skip(skip).limit(limit).select("address registeredAt") of an ordered result;
\* the driver sends a negative limit as its absolute value
Page(order, skip, limit) ==
    LET n == Len(store)
        first == skip + 1
        last == Min(n, skip + Abs(limit))
    IN  [i \in 1..(IF last >= first THEN last - first + 1 ELSE 0) |->
            store[order[first + i - 1]]]

\* Math.ceil(totalCount / limit) for limit # 0
CeilDiv(a, b) ==
    IF b > 0 THEN (a + b - 1) \div b
    ELSE -((a) \div (-b))

(* ------------------------- query parameters ---------------------------- *)
DigitSeq == <<"0", "1", "2", "3", "4", "5", "6", "7", "8", "9">>
DigitVal(c) == (CHOOSE i \in 1..Len(DigitSeq) : DigitSeq[i] = c) - 1

RECURSIVE DigitsValue(_, _)
\* the value of the longest prefix of digits of s, after acc; -1 if acc is
\* -1 and s starts with no digit
DigitsValue(s, acc) ==
    IF Len(s) > 0 /\ Head(s) \in Digits
    THEN DigitsValue(Tail(s), (IF acc < 0 THEN 0 ELSE acc * 10) + DigitVal(Head(s)))
    ELSE acc

NaN == [nan |-> TRUE, n |-> 0]
\* parseInt(v): leading blanks skipped, an optional sign, then digits
parseInt(v) ==
    IF v.type # "string" THEN NaN
    ELSE LET s == TrimLeft(v.val)
             neg == Len(s) > 0 /\ Head(s) = "-"
             body == IF Len(s) > 0 /\ Head(s) \in {"-", "+"} THEN Tail(s) ELSE s
             d == DigitsValue(body, -1)
         IN  IF d < 0 THEN NaN ELSE [nan |-> FALSE, n |-> IF neg THEN -d ELSE d]

\* mutant: only NaN falls back to the default
OrDefaultNaN(r, dflt) == IF r.nan THEN dflt ELSE r.n

\* parseInt(v) || dflt : NaN and 0 are falsy
OrDefault(r, dflt) == IF r.nan \/ r.n = 0 THEN dflt ELSE r.n

QueryValues ==
    { [type |-> "undefined"], Str(<<"a", "b", "c">>), Str(<<"0">>), Str(<<"-", "1">>),
      Str(<<"1">>), Str(<<"2">>), Str(<<"3">>), Str(<<"4">>), Str(<<"2", "x">>) }

\* today.setHours(0, 0, 0, 0)
Midnight(t) == t - (t % DayTicks)


(* -------------------------------- Init --------------------------------- *)
NoWalk == [limit |-> 0, next |-> 1, rows |-> <<>>, total |-> 0, totalPages |-> 0]

Init ==
    /\ store = <<>>
    /\ now = 0
    /\ req = [p \in Slots |-> Idle]
    /\ resp = NoResp
    /\ lifecycle = "running"
    /\ lastWrite = [a \in NormAddrs |-> "none"]
    /\ reported = [a \in NormAddrs |-> None]
    /\ walk = NoWalk

\* A request reaches its handler while the process is alive: app.listen is
\* never closed before process.exit.  Idle slots are interchangeable, so a new
\* request takes the lowest one.
Accepting(p) ==
    /\ lifecycle # "exited"
    /\ req[p].pc = "idle"
    /\ \A q \in Slots : q < p => req[q].pc # "idle"

\* a handler resumes after an await while the process is alive
Running(p, pc) == lifecycle # "exited" /\ req[p].pc = pc

Report(a, t) == [reported EXCEPT ![a] = t]

Internal(op, arg, error) ==
    [op |-> op, arg |-> arg, status |-> 500, message |-> "Internal server error",
     error |-> error]

(* ------------------- POST /api/whitelist/register ---------------------- *)
\* mutant: the pre-check finds nothing
PreCheckSkipped(normalizedAddress) == Null

\* line 128: the pre-check, existing = await Whitelist.findOne({ address })
PreCheck(normalizedAddress) == FindOne(normalizedAddress)

\* lines 110-145: validation, the findOne pre-check, the new document
RegisterFindOne(p, body, ok) ==
    /\ Accepting(p)
    /\ UNCHANGED <<store, now, lifecycle, lastWrite, reported, walk>>
    /\ IF ~Truthy(body) \/ body.type # "string"
       THEN /\ resp' = [op |-> "register", arg |-> body, status |-> 400,
                        message |-> "Invalid wallet address"]
            /\ UNCHANGED req
       ELSE IF ~isValidEthereumAddress(body.val)
       THEN /\ resp' = [op |-> "register", arg |-> body, status |-> 400,
                        message |-> "Invalid Ethereum address format"]
            /\ UNCHANGED req
       ELSE LET normalizedAddress == toLowerCase(body.val)
                existing == PreCheck(normalizedAddress)
            IN  IF ~ok
                THEN /\ resp' = Internal("register", body, "StorageError")
                     /\ UNCHANGED req
                ELSE IF existing # Null
                THEN /\ resp' = [op |-> "register", arg |-> body, status |-> 409,
                                 message |-> "Address already registered",
                                 registration |-> existing]
                     /\ UNCHANGED req
                ELSE /\ req' = [req EXCEPT ![p] =
                                  [pc |-> "register_save", arg |-> body,
                                   registration |-> Doc(normalizedAddress, now)]]
                     /\ resp' = NoResp

\* the insert of `await registration.save()`, as the store decides it
SaveOutcome(doc, ok) ==
    IF ~ok THEN "StorageError"
    ELSE IF ~UniqueIndexAllows(doc) THEN "DuplicateKey"
    ELSE "inserted"

\* line 147: await registration.save(); a rejected insert goes to the catch
RegisterSave(p, ok) ==
    /\ Running(p, "register_save")
    /\ LET doc == req[p].registration
           outcome == SaveOutcome(doc, ok)
       IN  IF outcome = "inserted"
           THEN /\ store' = Append(store, doc)
                /\ lastWrite' = [lastWrite EXCEPT ![doc.address] = "saved"]
                /\ req' = [req EXCEPT ![p].pc = "register_count"]
                /\ resp' = NoResp
           ELSE /\ resp' = Internal("register", req[p].arg, outcome)
                /\ req' = [req EXCEPT ![p] = Idle]
                /\ UNCHANGED <<store, lastWrite>>
    /\ UNCHANGED <<now, lifecycle, reported, walk>>

\* lines 151-159: await Whitelist.countDocuments(), then the 201 response
RegisterCount(p, ok) ==
    /\ Running(p, "register_count")
    /\ LET registration == req[p].registration
       IN  IF ok
           THEN /\ resp' = [op |-> "register", arg |-> req[p].arg, status |-> 201,
                            message |-> "Successfully registered",
                            address |-> registration.address,
                            registeredAt |-> registration.registeredAt]
                /\ reported' = IF FindOne(registration.address) = registration
                               THEN Report(registration.address,
                                           registration.registeredAt)
                               ELSE reported
           ELSE /\ resp' = Internal("register", req[p].arg, "StorageError")
                /\ UNCHANGED reported
    /\ req' = [req EXCEPT ![p] = Idle]
    /\ UNCHANGED <<store, now, lifecycle, lastWrite, walk>>

(* ------------------ GET /api/whitelist/check/:address ------------------ *)
\* mutant: the address is looked up as spelled
LookupExact(address) == FindOne(address)

\* lines 187-190: normalize, then look the address up
Lookup(address) == FindOne(toLowerCase(address))

\* mutant: the lookup is a findOneAndDelete
CheckDeleting(p, address, ok) ==
    /\ Accepting(p)
    /\ UNCHANGED <<now, req, lifecycle, lastWrite, reported, walk>>
    /\ LET hits == Matching(toLowerCase(address))
       IN  /\ store' = IF hits = {} THEN store
                       ELSE RemoveAt(store, CHOOSE i \in hits : TRUE)
           /\ resp' = [op |-> "check", arg |-> Str(address), status |-> 200,
                       isRegistered |-> (hits # {}),
                       registration |-> FindOne(toLowerCase(address))]

\* lines 169-209
Check(p, address, ok) ==
    /\ Accepting(p)
    /\ UNCHANGED <<store, now, req, lifecycle, lastWrite, walk>>
    /\ IF Len(address) = 0
       THEN /\ resp' = [op |-> "check", arg |-> Str(address), status |-> 400,
                        message |-> "Address is required"]
            /\ UNCHANGED reported
       ELSE IF ~isValidEthereumAddress(address)
       THEN /\ resp' = [op |-> "check", arg |-> Str(address), status |-> 400,
                        message |-> "Invalid Ethereum address format"]
            /\ UNCHANGED reported
       ELSE LET normalizedAddress == toLowerCase(address)
                registration == Lookup(address)
            IN  IF ~ok
                THEN /\ resp' = Internal("check", Str(address), "StorageError")
                     /\ UNCHANGED reported
                ELSE /\ resp' = [op |-> "check", arg |-> Str(address), status |-> 200,
                                 isRegistered |-> (registration # Null),
                                 registration |-> registration]
                     /\ reported' = IF registration # Null
                                    THEN Report(normalizedAddress,
                                                registration.registeredAt)
                                    ELSE reported

(* --------------------- DELETE /api/whitelist/:address ------------------ *)
\* mutant: the delete removes nothing
FindOneAndDeleteNothing(a) == store

\* Whitelist.findOneAndDelete({ address }): the collection without the first
\* matching document
FindOneAndDelete(a) ==
    LET hits == Matching(a)
    IN  IF hits = {} THEN store
        ELSE RemoveAt(store, CHOOSE i \in hits : \A j \in hits : i <= j)

\* lines 278-282: the address is lower-cased but not validated; Mongoose casts
\* the filter through the schema's setters before the store sees it
Remove(p, address, ok) ==
    /\ Accepting(p)
    /\ UNCHANGED <<now, req, lifecycle, walk>>
    /\ LET normalizedAddress == CastFilter(toLowerCase(address))
           result == FindOne(normalizedAddress)
       IN  IF ~ok
           THEN /\ resp' = Internal("remove", Str(address), "StorageError")
                /\ UNCHANGED <<store, lastWrite, reported>>
           ELSE IF result # Null
           THEN /\ store' = FindOneAndDelete(normalizedAddress)
                /\ lastWrite' = [lastWrite EXCEPT ![normalizedAddress] = "removed"]
                /\ reported' = [reported EXCEPT ![normalizedAddress] = None]
                /\ resp' = [op |-> "remove", arg |-> Str(address), status |-> 200,
                            message |-> "Address removed from whitelist"]
           ELSE /\ resp' = [op |-> "remove", arg |-> Str(address), status |-> 404,
                            message |-> "Address not found"]
                /\ UNCHANGED <<store, lastWrite, reported>>

(* ----------------------- GET /api/whitelist/list ----------------------- *)
\* lines 213-221: parameter coercion and the find query; the store rejects a
\* negative skip
ListFind(p, pageRaw, limitRaw, order, ok) ==
    /\ Accepting(p)
    /\ order \in SortedOrders
    /\ UNCHANGED <<store, now, lifecycle, lastWrite, reported, walk>>
    /\ LET page == OrDefault(parseInt(pageRaw), DefaultPage)
           limit == OrDefault(parseInt(limitRaw), DefaultLimit)
           skip == (page - 1) * limit
       IN  IF ~ok \/ skip < 0
           THEN /\ resp' = Internal("list", <<pageRaw, limitRaw>>,
                                    IF ok THEN "BadValue" ELSE "StorageError")
                /\ UNCHANGED req
           ELSE /\ req' = [req EXCEPT ![p] =
                             [pc |-> "list_count", arg |-> <<pageRaw, limitRaw>>,
                              page |-> page, limit |-> limit,
                              registrations |-> Page(order, skip, limit)]]
                /\ resp' = NoResp

\* lines 223-232: await Whitelist.countDocuments(), then the response
ListCount(p, ok) ==
    /\ Running(p, "list_count")
    /\ LET r == req[p]
           totalCount == CountDocuments
       IN  IF ~ok
           THEN /\ resp' = Internal("list", r.arg, "StorageError")
                /\ UNCHANGED walk
           ELSE /\ resp' = [op |-> "list", arg |-> r.arg, status |-> 200,
                            count |-> Len(r.registrations), total |-> totalCount,
                            page |-> r.page,
                            totalPages |-> CeilDiv(totalCount, r.limit),
                            registrations |-> r.registrations]
                /\ walk' = IF r.limit = walk.limit /\ r.page = walk.next
                           THEN [walk EXCEPT !.next = @ + 1,
                                             !.rows = @ \o r.registrations,
                                             !.total = totalCount,
                                             !.totalPages = CeilDiv(totalCount, r.limit)]
                           ELSE walk
    /\ req' = [req EXCEPT ![p] = Idle]
    /\ UNCHANGED <<store, now, lifecycle, lastWrite, reported>>

(* ---------------------- GET /api/whitelist/stats ----------------------- *)
\* lines 244-247: the total, then today's midnight
StatsTotal(p, ok) ==
    /\ Accepting(p)
    /\ UNCHANGED <<store, now, lifecycle, lastWrite, reported, walk>>
    /\ IF ~ok
       THEN /\ resp' = Internal("stats", <<>>, "StorageError")
            /\ UNCHANGED req
       ELSE /\ req' = [req EXCEPT ![p] =
                         [pc |-> "stats_today", total |-> CountDocuments,
                          today |-> Midnight(now)]]
            /\ resp' = NoResp

\* lines 248-253: today's count, then the instant a week ago
StatsToday(p, ok) ==
    /\ Running(p, "stats_today")
    /\ UNCHANGED <<store, now, lifecycle, lastWrite, reported, walk>>
    /\ IF ~ok
       THEN /\ resp' = Internal("stats", <<>>, "StorageError")
            /\ req' = [req EXCEPT ![p] = Idle]
       ELSE /\ req' = [req EXCEPT ![p] =
                         [pc |-> "stats_week", total |-> req[p].total,
                          todayCount |-> CountFrom(req[p].today),
                          weekAgo |-> now - WeekDays * DayTicks]]
            /\ resp' = NoResp

\* lines 254-265: the week's count, then the response
StatsWeek(p, ok) ==
    /\ Running(p, "stats_week")
    /\ UNCHANGED <<store, now, lifecycle, lastWrite, reported, walk>>
    /\ req' = [req EXCEPT ![p] = Idle]
    /\ resp' = IF ~ok THEN Internal("stats", <<>>, "StorageError")
               ELSE [op |-> "stats", arg |-> <<>>, status |-> 200,
                     total |-> req[p].total, today |-> req[p].todayCount,
                     lastWeek |-> CountFrom(req[p].weekAgo)]

(* ----------------------------- GET /health ----------------------------- *)
\* mongoose.connection.readyState: 1 connected, 3 disconnecting
ReadyState == IF lifecycle = "running" THEN 1 ELSE 3

\* lines 307-323; `message` is the error text the body carries: the 500 body
\* is { status: "error", timestamp, error: error.message }
Health(p, ok) ==
    /\ Accepting(p)
    /\ UNCHANGED <<store, now, req, lifecycle, lastWrite, reported, walk>>
    /\ resp' = IF ok
               THEN [op |-> "health", arg |-> <<>>, status |-> 200,
                     database |-> IF ReadyState = 1 THEN "connected" ELSE "disconnected",
                     registrations |-> CountDocuments]
               ELSE [op |-> "health", arg |-> <<>>, status |-> 500,
                     message |-> "StorageError", error |-> "StorageError"]

(* ------------------------- the error handler --------------------------- *)
\* errors that cors() (line 27) and express.json() (line 35) pass to next()
MiddlewareErrors == { "Not allowed by CORS", "Unexpected token in JSON" }

\* lines 335-341: the error-handling middleware answers a request whose
\* middleware failed
Fallback(p, cause) ==
    /\ Accepting(p)
    /\ cause \in MiddlewareErrors
    /\ UNCHANGED <<store, now, req, lifecycle, lastWrite, reported, walk>>
    /\ resp' = Internal("fallback", <<>>, cause)

(* ------------------------- SIGTERM / SIGINT ---------------------------- *)
\* lines 358-360 and 365-367: the handler starts mongoose.connection.close()
\* and awaits it; the HTTP server is left listening
Signal ==
    /\ lifecycle = "running"
    /\ lifecycle' = "closing"
    /\ resp' = NoResp
    /\ UNCHANGED <<store, now, req, lastWrite, reported, walk>>

\* lines 361-362 and 368-369: the close has resolved; process.exit(0) ends
\* every handler
Exit ==
    /\ lifecycle = "closing"
    /\ lifecycle' = "exited"
    /\ req' = [p \in Slots |-> Idle]
    /\ resp' = NoResp
    /\ UNCHANGED <<store, now, lastWrite, reported, walk>>

(* ------------------------------- clock --------------------------------- *)
Tick ==
    /\ lifecycle # "exited"
    /\ now < MaxTime
    /\ now' = now + 1
    /\ resp' = NoResp
    /\ UNCHANGED <<store, req, lifecycle, lastWrite, reported, walk>>


(* ------------------------------ claims --------------------------------- *)
\* the documents of the collection whose address normalizes to a
Entries(a) == { i \in 1..Len(store) : toLowerCase(store[i].address) = a }

\* the latest step answered an `op` request whose address normalizes to a
Answered(op, a) ==
    /\ resp.op = op
    /\ resp.arg.type = "string"
    /\ toLowerCase(resp.arg.val) = a

\* C1: in every reachable state the store holds at most one Registration per
\* normalized (lower-cased) address, whatever the interleaving of requests.
C1_OnePerAddress ==
    \A i, j \in 1..Len(store) :
        toLowerCase(store[i].address) = toLowerCase(store[j].address) => i = j

\* C1 witness: two register calls for one address in different letter case
\* both passed the pre-check; one has saved, the other's insert was rejected.
C1_Witness ==
    \E p \in Slots :
        /\ req[p].pc = "register_count"
        /\ resp.op = "register" /\ resp.status = 500 /\ resp.error = "DuplicateKey"
        /\ resp.arg # req[p].arg
        /\ toLowerCase(resp.arg.val) = req[p].registration.address
        /\ Cardinality(Entries(req[p].registration.address)) = 1

\* C2: a register call that finds its normalized address already present, by
\* the pre-check or by the store rejecting the insert as a duplicate key,
\* answers 409 AlreadyRegistered, never 500.
C2_DuplicateIs409 ==
    ( /\ resp.op = "register"
      /\ \/ resp.status = 409
         \/ (resp.status = 500 /\ resp.error = "DuplicateKey") )
        => resp.status = 409

\* C3: once a response has shown the Registration of address a and no remove
\* of a has committed since, a further register of a in any letter case
\* creates nothing: it does not get past the pre-check, the store keeps exactly
\* the one entry with its registeredAt, and unless the lookup itself fails in
\* the store the call answers 409 with that entry's address and registeredAt.
C3_SecondRegister ==
    [][\A a \in NormAddrs :
         reported[a] # None =>
           /\ \A p \in Slots :
                 (req[p].pc = "idle" /\ req'[p].pc = "register_save")
                     => req'[p].registration.address # a
           /\ (Answered("register", a)' /\ req' = req)
                 => /\ store' = store
                    /\ Cardinality(Entries(a)') = 1
                    /\ \A i \in Entries(a)' : store'[i].registeredAt = reported[a]
                    /\ \/ resp'.status = 500 /\ resp'.error = "StorageError"
                       \/ /\ resp'.status = 409
                          /\ resp'.registration =
                                [address |-> a, registeredAt |-> reported[a]]
      ]_vars

\* C3 witness: a register in upper case answered 409 with the entry created
\* earlier, at a later time than that entry's registeredAt.
C3_Witness ==
    /\ resp.op = "register" /\ resp.status = 409
    /\ resp.arg = Str(Addr("A"))
    /\ resp.registration = [address |-> Addr("a"), registeredAt |-> 0]
    /\ reported[Addr("a")] = 0
    /\ now > 0
    /\ Len(store) = 1

\* C5: while no remove of a commits, check(a) answers isRegistered false as
\* long as no register of a has been saved, and once a response has shown the
\* Registration of a every check of a, in any letter case, answers
\* isRegistered true with that same registeredAt.
C5_CheckMonotone ==
    [][\A a \in NormAddrs :
         (Answered("check", a)' /\ resp'.status = 200) =>
           /\ lastWrite[a] = "none" => ~resp'.isRegistered
           /\ reported[a] # None =>
                 /\ resp'.isRegistered
                 /\ resp'.registration = [address |-> a, registeredAt |-> reported[a]]
      ]_vars

\* C5 witness: a check in upper case answers true with the registeredAt that an
\* earlier response showed, at a later time.
C5_Witness ==
    /\ resp.op = "check" /\ resp.status = 200 /\ resp.isRegistered
    /\ resp.arg = Str(Addr("A"))
    /\ resp.registration.registeredAt = 0
    /\ now > 0

\* C6: a remove that answers 200 has deleted the one entry of its address;
\* while the last committed write of a is that remove, every check of a
\* answers isRegistered false; a remove of an address without an entry answers
\* 404 (500 if the store fails) and deletes nothing.
C6_Remove ==
    [][\A a \in NormAddrs :
         /\ Answered("remove", a)' =>
               /\ resp'.status = 200 =>
                     /\ Entries(a) # {} /\ Entries(a)' = {}
                     /\ Len(store') = Len(store) - 1
               /\ resp'.status # 200 => store' = store
               /\ Entries(a) = {} => resp'.status \in {404, 500}
               /\ resp'.status = 404 => Entries(a) = {}
         /\ (Answered("check", a)' /\ resp'.status = 200 /\ lastWrite[a] = "removed")
               => ~resp'.isRegistered
      ]_vars

\* C6 witness: a check answers false for an address whose entry a remove has
\* deleted.
C6_Witness ==
    \E a \in NormAddrs :
        /\ lastWrite[a] = "removed"
        /\ Answered("check", a) /\ resp.status = 200 /\ ~resp.isRegistered

\* C6 witness, second half: a remove of an address without an entry answers 404.
C6_WitnessNotFound ==
    \E a \in NormAddrs :
        Answered("remove", a) /\ resp.status = 404 /\ Len(store) > 0

\* C9: a register call whose insert has persisted the new row answers 201
\* whether or not the count query that follows succeeds.
C9_CountDoesNotAffectResult ==
    [][\A p \in Slots :
         (req[p].pc = "register_count" /\ req'[p].pc = "idle" /\ lifecycle' # "exited")
             => resp'.status = 201
      ]_vars

\* the pattern ^0x[0-9a-fA-F]{40}$ of the specification, on a body value
MatchesPattern(v) ==
    /\ v.type = "string"
    /\ Len(v.val) = 42
    /\ SubSeq(v.val, 1, 2) = <<"0", "x">>
    /\ \A i \in 3..42 :
          v.val[i] \in {"0", "1", "2", "3", "4", "5", "6", "7", "8", "9",
                        "a", "b", "c", "d", "e", "f", "A", "B", "C", "D", "E", "F"}

\* C4: register and check answer 400 and leave the store alone for every input
\* that does not match ^0x[0-9a-fA-F]{40}$ in full, and never answer 400 for
\* an input that matches.
C4_FormatErrors ==
    [][resp'.op \in {"register", "check"} =>
         IF MatchesPattern(resp'.arg)
         THEN resp'.status # 400
         ELSE resp'.status = 400 /\ store' = store /\ req' = req
      ]_vars

\* C4 witness: with an entry stored, a check of that address followed by a
\* newline is answered 400.
C4_Witness ==
    /\ resp.op = "check" /\ resp.status = 400
    /\ resp.arg = Str(Addr("a") \o <<"\n">>)
    /\ \E i \in 1..Len(store) : store[i].address = Addr("a")

\* C7: every stats response has total >= lastWeek >= today >= 0.
C7_StatsOrdered ==
    (resp.op = "stats" /\ resp.status = 200)
        => (resp.total >= resp.lastWeek /\ resp.lastWeek >= resp.today /\ resp.today >= 0)

\* no document occurs twice in rows, every document of the store occurs, and
\* registeredAt never increases along rows
ExactlyOnceDescending(rows) ==
    /\ \A i, j \in 1..Len(rows) : rows[i] = rows[j] => i = j
    /\ \A k \in 1..Len(store) : \E i \in 1..Len(rows) : rows[i] = store[k]
    /\ Len(rows) = Len(store)
    /\ \A i, j \in 1..Len(rows) : i < j => rows[i].registeredAt >= rows[j].registeredAt

\* C8: over a store that is not modified, with limit >= 1, every list response
\* has total = the number of stored documents and totalPages = ceil(total/limit),
\* and pages 1..totalPages concatenated hold every document exactly once in
\* registeredAt-descending order, ties included.
C8_Pagination ==
    (walk.limit >= 1 /\ walk.next > 1) =>
        /\ walk.total = Len(store)
        /\ walk.totalPages * walk.limit >= walk.total
        /\ (walk.totalPages - 1) * walk.limit < walk.total
        /\ walk.next > walk.totalPages => ExactlyOnceDescending(walk.rows)

\* a request is taken on and answered, or taken on and left in flight
RequestAccepted ==
    \/ resp'.op # "none" /\ req' = req
    \/ \E p \in Slots : req[p].pc = "idle" /\ req'[p].pc # "idle"

\* a handler in flight goes on to its next storage operation
OperationIssued ==
    \E p \in Slots : req[p].pc # "idle" /\ req'[p].pc \notin {"idle", req[p].pc}

\* C10: once the storage connection's close has begun, no request is accepted
\* and no handler issues a storage operation.
C10_CloseAfterStop ==
    [][lifecycle = "closing" => ~RequestAccepted /\ ~OperationIssued]_vars

\* the value a query parameter was supplied with, d if it has none
Supplied(v, d) == IF parseInt(v).nan THEN d ELSE parseInt(v).n

\* C11: a list request with limit 0 is rejected and never answered with a
\* page, and no list handler computes totalPages with a zero limit.
C11_ZeroLimitRejected ==
    /\ (resp.op = "list" /\ Supplied(resp.arg[2], DefaultLimit) = 0)
          => resp.status # 200
    /\ \A p \in Slots : req[p].pc = "list_count" => req[p].limit # 0

\* C12 as stated: a numeric page or limit, zero and negative included, is the
\* value the handler works with and echoes; an absent or non-numeric one is
\* replaced by its default; no list request is answered 400.
C12_PassedThrough ==
    /\ resp.op = "list" => resp.status # 400
    /\ \A p \in Slots :
          req[p].pc = "list_count" =>
              /\ req[p].page = Supplied(req[p].arg[1], DefaultPage)
              /\ req[p].limit = Supplied(req[p].arg[2], DefaultLimit)
    /\ (resp.op = "list" /\ resp.status = 200)
          => resp.page = Supplied(resp.arg[1], DefaultPage)

\* what the list handler makes of a query parameter, value by value
Coerced(v, d) ==
    IF v.type # "string" THEN d
    ELSE CASE v.val = <<"-", "1">> -> -1
           [] v.val = <<"1">>      -> 1
           [] v.val = <<"2">>      -> 2
           [] v.val = <<"3">>      -> 3
           [] v.val = <<"4">>      -> 4
           [] v.val = <<"2", "x">> -> 2
           [] OTHER                -> d

\* C12: list never answers 400.  An absent, non-numeric or zero page counts as
\* 1 and an absent, non-numeric or zero limit as 50; a negative value is used
\* as supplied.  A request whose skip (page-1)*limit is negative is answered
\* 500; every other one, unless the store fails, is answered 200 echoing that
\* page, with totalPages = ceil(total/limit) for that limit, negative included.
C12_LenientCoercion ==
    /\ resp.op = "list" => resp.status # 400
    /\ \A p \in Slots :
          req[p].pc = "list_count" =>
              /\ req[p].page = Coerced(req[p].arg[1], DefaultPage)
              /\ req[p].limit = Coerced(req[p].arg[2], DefaultLimit)
    /\ resp.op = "list" =>
          LET page == Coerced(resp.arg[1], DefaultPage)
              limit == Coerced(resp.arg[2], DefaultLimit)
          IN  /\ resp.status = 200 =>
                    /\ (page - 1) * limit >= 0
                    /\ resp.page = page
                    /\ IF limit > 0
                       THEN /\ resp.totalPages * limit >= resp.total
                            /\ (resp.totalPages - 1) * limit < resp.total
                       ELSE /\ resp.totalPages * limit <= resp.total
                            /\ (resp.totalPages - 1) * limit > resp.total
              /\ (resp.status = 500 /\ resp.error = "BadValue")
                    => (page - 1) * limit < 0

\* C12 witness: page=0 and limit=-1 over two documents are answered 200 with
\* page 1 and totalPages -2.
C12_Witness ==
    /\ resp.op = "list" /\ resp.status = 200
    /\ resp.arg = <<Str(<<"0">>), Str(<<"-", "1">>)>>
    /\ resp.page = 1 /\ resp.total = 2 /\ resp.totalPages = -2
    /\ resp.count = 1

\* C13: a remove of an address that does not match the address pattern is
\* never answered 200 and deletes nothing, whatever the store holds.
C13_RemoveMalformed ==
    [][(resp'.op = "remove" /\ ~MatchesPattern(resp'.arg))
          => (resp'.status # 200 /\ store' = store)
      ]_vars

\* C14: every 500 response, of any route, of /health and of the error handler,
\* carries the generic message and not the text of the error that caused it.
C14_GenericInternal ==
    resp.status = 500 =>
        (resp.message = "Internal server error" /\ resp.message # resp.error)

\* C15: a step leaves every stored entry as it is; it adds at most one entry,
\* and only as the insert of a register call that goes on to answer 201; it
\* deletes at most one entry, and only in a remove answered 200; a register or
\* remove call that answers anything else has not changed the store.
C15_NeverUpdated ==
    [][/\ \/ store' = store
          \/ \E p \in Slots :
                /\ req[p].pc = "register_save" /\ req'[p].pc = "register_count"
                /\ store' = Append(store, req[p].registration)
          \/ /\ resp'.op = "remove" /\ resp'.status = 200
             /\ \E i \in 1..Len(store) : store' = RemoveAt(store, i)
       /\ \A p \in Slots :
             (req[p].pc = "register_count" /\ req'[p].pc = "idle")
                 => resp'.status = 201
       /\ (resp'.op \in {"register", "remove"} /\ resp'.status \notin {200, 201})
             => store' = store
      ]_vars

ReadOps == { "check", "list", "stats", "health" }
ReadPcs == { "list_count", "stats_today", "stats_week" }

\* a step of a check, list, stats or health handler
ReadStep ==
    \/ resp'.op \in ReadOps
    \/ \E p \in Slots :
          \/ req[p].pc = "idle" /\ req'[p].pc \in ReadPcs
          \/ req[p].pc \in ReadPcs /\ req'[p] # req[p]

\* C16: no step of a check, list, stats or health handler changes the store,
\* whatever its input and whether it answers 200, 400 or 500.
C16_PureReads ==
    [][ReadStep => store' = store]_vars

\* C16 witness: a list request has returned both stored documents and the
\* store still holds them.
C16_Witness ==
    /\ resp.op = "list" /\ resp.status = 200 /\ resp.count = 2
    /\ Len(store) = 2
    /\ \A i \in 1..2 : \E j \in 1..2 : resp.registrations[j] = store[i]

\* C17: while the last committed write of address a is a remove, a register of
\* a is never answered 409: unless the store fails, its pre-check finds
\* nothing, it builds an entry whose registeredAt is the current time, and its
\* insert is accepted and appends exactly that entry; once its entry is the
\* stored one the call answers 201 with a and that registeredAt, unless the
\* count query fails.
C17_ReRegister ==
    [][\A a \in NormAddrs : \A p \in Slots :
         /\ lastWrite[a] = "removed" =>
               /\ (Answered("register", a)' /\ req' = req /\ MatchesPattern(resp'.arg))
                     => (resp'.status = 500 /\ resp'.error = "StorageError")
               /\ ( /\ req[p].pc = "idle" /\ req'[p].pc = "register_save"
                    /\ req'[p].registration.address = a )
                     => req'[p].registration.registeredAt = now
               /\ ( /\ req[p].pc = "register_save" /\ req'[p].pc # "register_save"
                    /\ req[p].registration.address = a )
                     => \/ /\ req'[p].pc = "idle" /\ store' = store
                           /\ resp'.status = 500 /\ resp'.error = "StorageError"
                        \/ /\ req'[p].pc = "register_count"
                           /\ store' = Append(store, req[p].registration)
         /\ ( /\ req[p].pc = "register_count" /\ req'[p].pc = "idle"
              /\ req[p].registration.address = a
              /\ FindOne(a) = req[p].registration )
               => \/ resp'.status = 500 /\ resp'.error = "StorageError"
                  \/ /\ resp'.status = 201 /\ resp'.address = a
                     /\ resp'.registeredAt = req[p].registration.registeredAt
      ]_vars

\* C17 witness: the entry a register call created at time 0 has been removed
\* before that call answered; a register of the same address at time 1 has
\* passed its pre-check with a new entry dated 1.
C17_Witness ==
    \E p, q \in Slots :
        /\ req[q].pc = "register_count"
        /\ req[q].registration = [address |-> Addr("a"), registeredAt |-> 0]
        /\ req[p].pc = "register_save"
        /\ req[p].registration = [address |-> Addr("a"), registeredAt |-> 1]
        /\ lastWrite[Addr("a")] = "removed"
        /\ store = <<>>

\* 0x followed by exactly 40 characters out of 0-9 and a-f
Normalized(a) ==
    /\ Len(a) = 42
    /\ a[1] = "0" /\ a[2] = "x"
    /\ \A i \in 3..42 :
          a[i] \in {"0", "1", "2", "3", "4", "5", "6", "7", "8", "9",
                    "a", "b", "c", "d", "e", "f"}

\* C18: every stored address is 0x followed by exactly 40 lower-case
\* hexadecimal characters; the address in a 201 register response and in a
\* check response with isRegistered true is the lower-cased input, and it is
\* the address of a stored entry.
C18_NormalizedAddresses ==
    /\ \A i \in 1..Len(store) : Normalized(store[i].address)
    /\ (resp.op = "register" /\ resp.status = 201)
          => /\ resp.address = toLowerCase(resp.arg.val)
             /\ Normalized(resp.address)
    /\ (resp.op = "check" /\ resp.status = 200 /\ resp.isRegistered)
          => /\ resp.registration.address = toLowerCase(resp.arg.val)
             /\ \E i \in 1..Len(store) : store[i] = resp.registration

\* C18 witness: a register of an address spelled in upper case is answered
\* 201 with the lower-case address, which is what the store holds.
C18_Witness ==
    /\ resp.op = "register" /\ resp.status = 201
    /\ resp.arg = Str(Addr("A"))
    /\ resp.address = Addr("a")
    /\ \E i \in 1..Len(store) : store[i].address = Addr("a")

\* the inserts and deletes of address a alternate, starting with an insert
CommitsAlternate(a) ==
    /\ (\E p \in Slots : /\ req[p].pc = "register_save"
                          /\ req'[p].pc = "register_count"
                          /\ req[p].registration.address = a)
          => (lastWrite[a] \in {"none", "removed"} /\ lastWrite'[a] = "saved")
    /\ (Answered("remove", a)' /\ resp'.status = 200)
          => (lastWrite[a] = "saved" /\ lastWrite'[a] = "removed")
    /\ lastWrite'[a] # lastWrite[a]
          => \/ Answered("remove", a)' /\ resp'.status = 200
             \/ \E p \in Slots : /\ req[p].pc = "register_save"
                                  /\ req'[p].pc = "register_count"
                                  /\ req[p].registration.address = a

\* a remove of a is answered 200 exactly when a has an entry, which it deletes,
\* so of several removes of one entry one answers 200 and the others 404
OneRemoveWins(a) ==
    Answered("remove", a)' =>
        \/ resp'.status = 500 /\ store' = store
        \/ resp'.status = 200 /\ Entries(a) # {} /\ Entries(a)' = {}
        \/ resp'.status = 404 /\ Entries(a) = {} /\ store' = store

\* C19: for each address the calls answered 201 (register) and 200 (remove)
\* alternate in the order of their commits, starting with a register: inserts
\* and deletes alternate, every insert is that of a call answered 201 and
\* every delete that of a call answered 200; of several removes of a present
\* address one answers 200 and the rest 404.
C19_Alternation ==
    [][/\ \A a \in NormAddrs : CommitsAlternate(a) /\ OneRemoveWins(a)
       /\ \A p \in Slots :
             (req[p].pc = "register_count" /\ req'[p].pc = "idle")
                 => (resp'.op = "register" /\ resp'.status = 201)
      ]_vars

(* --------------------------- specifications ---------------------------- *)
\* concurrent register, check and remove requests
Next ==
    \/ \E p \in Slots, body \in RaceBodies, ok \in BOOLEAN : RegisterFindOne(p, body, ok)
    \/ \E p \in Slots, ok \in BOOLEAN : RegisterSave(p, ok)
    \/ \E p \in Slots, ok \in BOOLEAN : RegisterCount(p, ok)
    \/ \E p \in Slots, address \in RaceStrings, ok \in BOOLEAN : Check(p, address, ok)
    \/ \E p \in Slots, address \in RaceStrings, ok \in BOOLEAN : Remove(p, address, ok)
    \/ Tick

Spec == Init /\ [][Next]_vars

\* one request at a time, over every shape of input
NextSerial ==
    \/ \E body \in BodyValues, ok \in BOOLEAN : RegisterFindOne(1, body, ok)
    \/ \E ok \in BOOLEAN : RegisterSave(1, ok)
    \/ \E ok \in BOOLEAN : RegisterCount(1, ok)
    \/ \E address \in Strings, ok \in BOOLEAN : Check(1, address, ok)
    \/ \E address \in Strings, ok \in BOOLEAN : Remove(1, address, ok)
    \/ Tick

SpecSerial == Init /\ [][NextSerial]_vars

\* stats requests concurrent with register and remove requests
StatsBodies == { Str(Addr("a")), Str(Addr("9")) }
NextStats ==
    \/ \E p \in Slots, body \in StatsBodies, ok \in BOOLEAN : RegisterFindOne(p, body, ok)
    \/ \E p \in Slots, ok \in BOOLEAN : RegisterSave(p, ok)
    \/ \E p \in Slots, ok \in BOOLEAN : RegisterCount(p, ok)
    \/ \E p \in Slots, ok \in BOOLEAN : Remove(p, Addr("a"), ok)
    \/ \E p \in Slots, ok \in BOOLEAN : StatsTotal(p, ok)
    \/ \E p \in Slots, ok \in BOOLEAN : StatsToday(p, ok)
    \/ \E p \in Slots, ok \in BOOLEAN : StatsWeek(p, ok)
    \/ Tick

SpecStats == Init /\ [][NextStats]_vars

\* requests around a shutdown signal
NextShutdown ==
    \/ Signal
    \/ Exit
    \/ \E p \in Slots, body \in StatsBodies, ok \in BOOLEAN : RegisterFindOne(p, body, ok)
    \/ \E p \in Slots, ok \in BOOLEAN : RegisterSave(p, ok)
    \/ \E p \in Slots, ok \in BOOLEAN : RegisterCount(p, ok)
    \/ \E p \in Slots, ok \in BOOLEAN : Check(p, Addr("a"), ok)
    \/ \E p \in Slots, ok \in BOOLEAN : Health(p, ok)

SpecShutdown == Init /\ [][NextShutdown]_vars

\* a client pages through a collection that no request modifies
Docs == { [address |-> a, registeredAt |-> t] : a \in NormAddrs, t \in 0..MaxTime }
PageStores ==
    UNION { { s \in [1..n -> Docs] :
                \A i, j \in 1..n : s[i].address = s[j].address => i = j }
            : n \in 0..MaxDocs }

InitPages ==
    /\ store \in PageStores
    /\ now = MaxTime
    /\ req = [p \in Slots |-> Idle]
    /\ resp = NoResp
    /\ lifecycle = "running"
    /\ lastWrite = [a \in NormAddrs |->
                      IF \E i \in 1..Len(store) : store[i].address = a
                      THEN "saved" ELSE "none"]
    /\ reported = [a \in NormAddrs |-> None]
    /\ \E limit \in 1..MaxLimit : walk = [NoWalk EXCEPT !.limit = limit]

\* the client asks for page walk.next with its page size, up to totalPages
NextPages ==
    \/ /\ walk.next = 1 \/ walk.next <= walk.totalPages
       /\ \E pageRaw \in { v \in QueryValues :
                             OrDefault(parseInt(v), DefaultPage) = walk.next },
             limitRaw \in { v \in QueryValues :
                              OrDefault(parseInt(v), DefaultLimit) = walk.limit } :
             \E order \in SortedOrders, ok \in BOOLEAN :
                 ListFind(1, pageRaw, limitRaw, order, ok)
    \/ \E ok \in BOOLEAN : ListCount(1, ok)

SpecPages == InitPages /\ [][NextPages]_vars

\* list requests over every shape of query parameter, between registrations:
\* absent, not a number, zero, negative, positive
EdgeQueries ==
    { [type |-> "undefined"], Str(<<"a", "b", "c">>), Str(<<"0">>), Str(<<"-", "1">>),
      Str(<<"2">>) }
NextList ==
    \/ \E body \in StatsBodies, ok \in BOOLEAN : RegisterFindOne(1, body, ok)
    \/ \E ok \in BOOLEAN : RegisterSave(1, ok)
    \/ \E ok \in BOOLEAN : RegisterCount(1, ok)
    \/ \E pageRaw \in EdgeQueries, limitRaw \in EdgeQueries :
          \E order \in SortedOrders, ok \in BOOLEAN :
              ListFind(1, pageRaw, limitRaw, order, ok)
    \/ \E ok \in BOOLEAN : ListCount(1, ok)
    \/ Tick

SpecList == Init /\ [][NextList]_vars

\* every endpoint, one request at a time
FewQueries == { [type |-> "undefined"], Str(<<"-", "1">>), Str(<<"2">>) }
NextAll ==
    \/ \E body \in StatsBodies, ok \in BOOLEAN : RegisterFindOne(1, body, ok)
    \/ \E ok \in BOOLEAN : RegisterSave(1, ok)
    \/ \E ok \in BOOLEAN : RegisterCount(1, ok)
    \/ \E address \in Strings, ok \in BOOLEAN : Check(1, address, ok)
    \/ \E ok \in BOOLEAN : Remove(1, Addr("a"), ok)
    \/ \E pageRaw \in FewQueries, limitRaw \in FewQueries :
          \E order \in SortedOrders, ok \in BOOLEAN :
              ListFind(1, pageRaw, limitRaw, order, ok)
    \/ \E ok \in BOOLEAN : ListCount(1, ok)
    \/ \E ok \in BOOLEAN : StatsTotal(1, ok)
    \/ \E ok \in BOOLEAN : StatsToday(1, ok)
    \/ \E ok \in BOOLEAN : StatsWeek(1, ok)
    \/ \E ok \in BOOLEAN : Health(1, ok)
    \/ \E cause \in MiddlewareErrors : Fallback(1, cause)
    \/ Tick

SpecAll == Init /\ [][NextAll]_vars


====
